---- MODULE Spec2Model ----
(***************************************************************************)
(* Model of formats/xls2ajf.go: the conversion of a flat sequence of       *)
(* xlsform survey rows into a tree of ajf nodes (Xls2ajf and the           *)
(* functions it calls).                                                    *)
(*                                                                         *)
(* Conventions.                                                            *)
(*  - Go slices are 0-based, TLA+ sequences 1-based: an index of the model *)
(*    is the Go index plus one, in loop variables, arguments and results   *)
(*    alike (groupEnd returns "i + 1" in both).                            *)
(*  - A Go `for` loop over an index range is an operator xxxLoop(.., lo,   *)
(*    hi, st) that runs the loop body for the indices lo..hi in ascending  *)
(*    order on the loop state st.  It splits the range in two halves and   *)
(*    runs the first half, then the second, on the result: the same        *)
(*    iterations in the same order, with a recursion depth that is         *)
(*    logarithmic in the length of the range.  An early `return` or panic  *)
(*    is a flag of the loop state that makes the later iterations no-ops:  *)
(*    the second half is not run once the first half has set it.  (A loop  *)
(*    without early exit tests its first half's result for a case that     *)
(*    does not occur, an empty map or a slice shorter than hi, which makes *)
(*    TLC evaluate the first half before it starts the second.)            *)
(*  - error values are strings, "" standing for nil; a panic is a string   *)
(*    as well, "" standing for "no panic".                                 *)
(*  - a nil-able pointer to a struct is a sequence of length 0 or 1.       *)
(***************************************************************************)
EXTENDS Integers, Sequences, FiniteSets, TLC

VARIABLES
    xls,         \* the input: [Survey, Choices] (the *XlsForm argument)
    pc,          \* position inside Xls2ajf
    ajf,         \* the AjfForm under construction: [ChoicesOrigins, Slides]
    choicesMap,  \* local choicesMap of Xls2ajf
    survey,      \* local survey of Xls2ajf (preprocessed rows)
    global,      \* local global of Xls2ajf (the phony root group)
    err,         \* the error Xls2ajf returns, "" while there is none
    panic,       \* the panic that unwound Xls2ajf, "" while there is none
    run,         \* 1 for the first conversion of xls, 2 for the second
    first        \* the AjfForm returned by the first conversion

vars == <<xls, pc, ajf, choicesMap, survey, global, err, panic, run, first>>

(***************************************************************************)
(* Bounds of the model: the largest number of rows of the survey sheets of *)
(* Spec, of SpecAny and of SpecTree.  With at most 7 rows a node is at     *)
(* most four levels below the virtual root and every id is below 2^31: no  *)
(* id of the sheets explored leaves the range of a Go int.                 *)
(***************************************************************************)
MaxRows == 5
MaxAnyRows == 4
MaxTreeRows == 6

(***************************************************************************)
(* Constants of the program.                                               *)
(***************************************************************************)
idMultiplier == 1000

beginGroup == "begin group"
endGroup == "end group"
beginRepeat == "begin repeat"
endRepeat == "end repeat"

\* Node types and field types: declared in the package's ajf type file.
NtField == "NtField"
NtGroup == "NtGroup"
NtSlide == "NtSlide"

FtString == "FtString"
FtNumber == "FtNumber"
FtBoolean == "FtBoolean"
FtSingleChoice == "FtSingleChoice"
FtMultipleChoice == "FtMultipleChoice"
FtFormula == "FtFormula"
FtDate == "FtDate"
FtTime == "FtTime"
FtNote == "FtNote"
FtNil == "nil"

OtFixed == "fixed"
CtString == "string"

notBalancedErr == "Groups are not balanced"

(***************************************************************************)
(* strings                                                                 *)
(***************************************************************************)
\* strings.HasPrefix
HasPrefix(s, prefix) ==
    /\ Len(s) >= Len(prefix)
    /\ SubSeq(s, 1, Len(prefix)) = prefix

\* strings.Index(s, " "), as a Go index: -1 when there is no space.
IndexOfSpace(s) ==
    LET hits == {i \in 1..Len(s) : SubSeq(s, i, i) = " "}
    IN  IF hits = {} THEN -1
        ELSE (CHOOSE i \in hits : \A j \in hits : i <= j) - 1

\* s[start:] for a Go index start.
SliceFrom(s, start) == SubSeq(s, start + 1, Len(s))

\* fmt's %q of a string without characters that need escaping.
Quote(s) == "\"" \o s \o "\""

(***************************************************************************)
(* type predicates                                                         *)
(***************************************************************************)
supportedField ==
    {"decimal", "text", "select_one yes_no", "note", "date", "time", "calculate"}

isSelectOne(typ) == HasPrefix(typ, "select_one ") /\ typ # "select_one yes_no"

isSelectMultiple(typ) == HasPrefix(typ, "select_multiple ")

isSupportedField(typ) ==
    typ \in supportedField \/ isSelectOne(typ) \/ isSelectMultiple(typ)

unsupportedField ==
    {"integer", "range", "geopoint", "geotrace", "geoshape",
     "datetime", "image", "audio", "video", "file",
     "barcode", "acknowledge", "hidden", "xml-external",
     "start", "end", "today", "deviceid", "subscriberid",
     "simserial", "phonenumber", "username", "email"}

isRank(typ) == HasPrefix(typ, "rank ")

isUnsupportedField(typ) == typ \in unsupportedField \/ isRank(typ)

(***************************************************************************)
(* values                                                                  *)
(***************************************************************************)
\* SurveyRow{Type: typ, Name: name, Label: label}: the other fields zero.
\* Relevant, Constraint, Calculation and RepeatCount are read by no function
\* of xls2ajf.go and are left out of the record.
SurveyRow(typ, name, label) ==
    [Type |-> typ, Name |-> name, Label |-> label, Required |-> "",
     LineNumber |-> 0]

\* Node{}: the zero Node.
ZeroNode ==
    [Name |-> "", Label |-> "", Type |-> "", FieldType |-> FtNil,
     ChoicesOriginRef |-> "", HTML |-> "", Validation |-> <<>>,
     Id |-> 0, Previous |-> 0, Nodes |-> <<>>]

(***************************************************************************)
(* buildChoicesOrigins                                                     *)
(***************************************************************************)
\* The first loop of buildChoicesOrigins: rows lo..hi appended to their lists.
\* A Go map is a function whose domain is the set of its keys.
RECURSIVE choicesMapLoop(_, _, _, _)
choicesMapLoop(rows, lo, hi, m) ==
    IF lo > hi THEN m
    ELSE IF lo = hi THEN
        LET row == rows[lo]
            choice == [Value |-> row.Name, Label |-> row.Label]
            old == IF row.ListName \in DOMAIN m THEN m[row.ListName] ELSE <<>>
        IN  [k \in DOMAIN m \cup {row.ListName} |->
                IF k = row.ListName THEN Append(old, choice) ELSE m[k]]
    ELSE LET mid == (lo + hi) \div 2
             left == choicesMapLoop(rows, lo, mid, m)
         IN  IF DOMAIN left = {} THEN left
             ELSE choicesMapLoop(rows, mid + 1, hi, left)

\* The orders in which `range choicesMap` may visit the keys: Go leaves the
\* iteration order of a map unspecified and randomizes it on purpose.
RangeOrders(m) ==
    LET n == Cardinality(DOMAIN m)
    IN  {o \in [1..n -> DOMAIN m] : \A i, j \in 1..n : o[i] = o[j] => i = j}

\* buildChoicesOrigins, for the order in which the second loop ranges over
\* the map.
buildChoicesOrigins(rows, order) ==
    LET m == choicesMapLoop(rows, 1, Len(rows), <<>>)
        co == [i \in 1..Len(order) |->
                 [Type |-> OtFixed, Name |-> order[i],
                  ChoicesType |-> CtString, Choices |-> m[order[i]]]]
    IN  [co |-> co, choicesMap |-> m]

(***************************************************************************)
(* preprocessGroups                                                        *)
(***************************************************************************)
\* The switch of preprocessGroups without its early return on a negative
\* depth: an `end group` row that closes no group goes unnoticed when a later
\* `begin group` row evens the count.
preprocessStepNoEarlyReturn(rows, k, st) ==
    LET typ == rows[k].Type IN
    IF typ = beginGroup THEN [st EXCEPT !.groupDepth = @ + 1]
    ELSE IF typ = endGroup THEN [st EXCEPT !.groupDepth = @ - 1]
    ELSE IF st.groupDepth = 0 THEN [st EXCEPT !.ungroupedItems = TRUE]
    ELSE st

\* The switch of preprocessGroups with the depth of an ungrouped row off by
\* one: rows inside a top-level group count as ungrouped, rows outside every
\* group do not.
preprocessStepDepthOffByOne(rows, k, st) ==
    LET typ == rows[k].Type IN
    IF typ = beginGroup THEN [st EXCEPT !.groupDepth = @ + 1]
    ELSE IF typ = endGroup THEN
        IF st.groupDepth - 1 < 0
        THEN [st EXCEPT !.groupDepth = @ - 1, !.err = notBalancedErr]
        ELSE [st EXCEPT !.groupDepth = @ - 1]
    ELSE IF st.groupDepth = 1 THEN [st EXCEPT !.ungroupedItems = TRUE]
    ELSE st

\* The body of the loop of preprocessGroups (its switch) for row k; st.err # ""
\* when it returns notBalancedErr.
preprocessStep(rows, k, st) ==
    LET typ == rows[k].Type IN
    IF typ = beginGroup THEN [st EXCEPT !.groupDepth = @ + 1]
    ELSE IF typ = endGroup THEN
        IF st.groupDepth - 1 < 0
        THEN [st EXCEPT !.groupDepth = @ - 1, !.err = notBalancedErr]
        ELSE [st EXCEPT !.groupDepth = @ - 1]
    ELSE IF st.groupDepth = 0 THEN [st EXCEPT !.ungroupedItems = TRUE]
    ELSE st

\* The loop of preprocessGroups over rows lo..hi.
RECURSIVE preprocessLoop(_, _, _, _)
preprocessLoop(rows, lo, hi, st) ==
    IF lo > hi THEN st
    ELSE IF lo = hi THEN
        IF st.err # "" THEN st ELSE preprocessStep(rows, lo, st)
    ELSE LET mid == (lo + hi) \div 2
             left == preprocessLoop(rows, lo, mid, st)
         IN  IF left.err # "" THEN left
             ELSE preprocessLoop(rows, mid + 1, hi, left)

\* append([]SurveyRow{{Type: beginGroup, Name: name, Label: label}}, rows...)
\* followed by append(rows, SurveyRow{Type: endGroup}).
Wrap(rows, name, label) ==
    <<SurveyRow(beginGroup, name, label)>> \o rows \o <<SurveyRow(endGroup, "", "")>>

\* preprocessGroups without the group "form" around ungrouped rows.
preprocessGroupsNoForm(rows) ==
    LET st == preprocessLoop(rows, 1, Len(rows),
                  [groupDepth |-> 0, ungroupedItems |-> FALSE, err |-> ""])
    IN  IF st.err # "" THEN [survey |-> <<>>, err |-> st.err]
        ELSE IF st.groupDepth # 0 THEN [survey |-> <<>>, err |-> notBalancedErr]
        ELSE [survey |-> Wrap(rows, "global", "Global"), err |-> ""]

\* preprocessGroups(survey): [survey, err].
preprocessGroups(rows) ==
    LET st == preprocessLoop(rows, 1, Len(rows),
                  [groupDepth |-> 0, ungroupedItems |-> FALSE, err |-> ""])
    IN  IF st.err # "" THEN [survey |-> <<>>, err |-> st.err]
        ELSE IF st.groupDepth # 0 THEN [survey |-> <<>>, err |-> notBalancedErr]
        ELSE LET wrapped == IF st.ungroupedItems
                            THEN Wrap(rows, "form", "Form")
                            ELSE rows
             IN  [survey |-> Wrap(wrapped, "global", "Global"), err |-> ""]

(***************************************************************************)
(* groupEnd                                                                *)
(***************************************************************************)
\* The loop of groupEnd over rows lo..hi; st.end # 0 once it has returned.
RECURSIVE groupEndLoop(_, _, _, _)
groupEndLoop(rows, lo, hi, st) ==
    IF lo > hi THEN st
    ELSE IF lo = hi THEN
        IF st.end # 0 THEN st
        ELSE LET typ == rows[lo].Type IN
             IF typ = beginGroup THEN [st EXCEPT !.groupDepth = @ + 1]
             ELSE IF typ = endGroup THEN
                 IF st.groupDepth - 1 = 0
                 THEN [st EXCEPT !.groupDepth = @ - 1, !.end = lo + 1]
                 ELSE [st EXCEPT !.groupDepth = @ - 1]
             ELSE st
    ELSE LET mid == (lo + hi) \div 2
             left == groupEndLoop(rows, lo, mid, st)
         IN  IF left.end # 0 THEN left
             ELSE groupEndLoop(rows, mid + 1, hi, left)

\* groupEnd(survey, group): the index just past the end of the group that
\* begins at index group, or the panic.
groupEnd(rows, group) ==
    LET st == groupEndLoop(rows, group + 1, Len(rows), [groupDepth |-> 1, end |-> 0])
    IN  IF st.end # 0 THEN [end |-> st.end, panic |-> ""]
        ELSE [end |-> 0, panic |-> "group end not found"]

(***************************************************************************)
(* buildField                                                              *)
(***************************************************************************)
buildField(row) ==
    LET field == [ZeroNode EXCEPT !.Name = row.Name, !.Label = row.Label,
                                  !.Type = NtField]
        typ == row.Type
        ref == SliceFrom(typ, IndexOfSpace(typ) + 1)
        typed ==
            IF typ = "decimal" THEN [node |-> [field EXCEPT !.FieldType = FtNumber], panic |-> ""]
            ELSE IF typ = "text" THEN [node |-> [field EXCEPT !.FieldType = FtString], panic |-> ""]
            ELSE IF typ = "select_one yes_no" THEN [node |-> [field EXCEPT !.FieldType = FtBoolean], panic |-> ""]
            ELSE IF isSelectOne(typ) THEN
                [node |-> [field EXCEPT !.FieldType = FtSingleChoice, !.ChoicesOriginRef = ref], panic |-> ""]
            ELSE IF isSelectMultiple(typ) THEN
                [node |-> [field EXCEPT !.FieldType = FtMultipleChoice, !.ChoicesOriginRef = ref], panic |-> ""]
            ELSE IF typ = "note" THEN
                [node |-> [field EXCEPT !.FieldType = FtNote, !.HTML = row.Label], panic |-> ""]
            ELSE IF typ = "date" THEN [node |-> [field EXCEPT !.FieldType = FtDate], panic |-> ""]
            ELSE IF typ = "time" THEN [node |-> [field EXCEPT !.FieldType = FtTime], panic |-> ""]
            ELSE IF typ = "calculate" THEN [node |-> [field EXCEPT !.FieldType = FtFormula], panic |-> ""]
            ELSE IF isUnsupportedField(typ) THEN
                [node |-> field, panic |-> "unsupported row type: " \o typ]
            ELSE [node |-> field, panic |-> "unrecognized row type: " \o typ]
    IN  IF typed.panic # "" THEN typed
        ELSE IF row.Required = "yes"
        THEN [typed EXCEPT !.node.Validation = <<[NotEmpty |-> TRUE]>>]
        ELSE typed

(***************************************************************************)
(* buildGroup                                                              *)
(***************************************************************************)
RECURSIVE buildGroup(_)
RECURSIVE buildGroupLoop(_, _, _, _)

\* The nested-group case with `i = end` for `i = end - 1`: the row that
\* follows the nested group is skipped.
buildGroupNestedSkipsRow(rows, k, st) ==
    LET ge == groupEnd(rows, k) IN
    IF ge.panic # "" THEN [st EXCEPT !.done = TRUE, !.panic = ge.panic]
    ELSE LET child == buildGroup(SubSeq(rows, k, ge.end - 1)) IN
         IF child.panic # "" THEN [st EXCEPT !.done = TRUE, !.panic = child.panic]
         ELSE IF child.err # ""
         THEN [st EXCEPT !.done = TRUE, !.err = child.err, !.group = ZeroNode]
         ELSE [st EXCEPT !.group.Nodes = Append(@, child.node),
                         !.i = ge.end + 1]

\* The case `row.Type == beginGroup` of buildGroup, for the loop variable
\* i = k: `i = end - 1`, then the loop's `i++`.
buildGroupNested(rows, k, st) ==
    LET ge == groupEnd(rows, k) IN
    IF ge.panic # "" THEN [st EXCEPT !.done = TRUE, !.panic = ge.panic]
    ELSE LET child == buildGroup(SubSeq(rows, k, ge.end - 1)) IN
         IF child.panic # "" THEN [st EXCEPT !.done = TRUE, !.panic = child.panic]
         ELSE IF child.err # ""
         THEN [st EXCEPT !.done = TRUE, !.err = child.err, !.group = ZeroNode]
         ELSE [st EXCEPT !.group.Nodes = Append(@, child.node),
                         !.i = (ge.end - 1) + 1]

\* The last three cases of the switch of buildGroup: the row is rejected.
buildGroupReject(k, row, st) ==
    IF isUnsupportedField(row.Type) THEN
        [st EXCEPT !.done = TRUE, !.group = ZeroNode,
                   !.err = "Field type " \o Quote(row.Type) \o " is not supported"]
    ELSE IF row.Type = beginRepeat \/ row.Type = endRepeat THEN
        [st EXCEPT !.done = TRUE, !.group = ZeroNode,
                   !.err = "Repeats are not supported"]
    ELSE
        [st EXCEPT !.done = TRUE, !.group = ZeroNode,
                   !.err = "Invalid type " \o Quote(row.Type) \o " in survey"]

\* One iteration of the loop of buildGroup, for the loop variable i = k.
\* st.i is the value the loop variable has when the next iteration starts
\* (the nested-group case moves it past the nested group); st.done says
\* that the function has returned or panicked.
buildGroupStep(rows, k, st) ==
    LET row == rows[k] IN
    IF row.Type = beginGroup THEN buildGroupNested(rows, k, st)
    ELSE IF row.Type = endGroup THEN
        IF k # Len(rows)
        THEN [st EXCEPT !.done = TRUE, !.panic = "unexpected end of group"]
        ELSE [st EXCEPT !.i = k + 1]
    ELSE IF isSupportedField(row.Type) THEN
        LET field == buildField(row) IN
        IF field.panic # "" THEN [st EXCEPT !.done = TRUE, !.panic = field.panic]
        ELSE [st EXCEPT !.group.Nodes = Append(@, field.node), !.i = k + 1]
    ELSE buildGroupReject(k, row, st)

\* The loop of buildGroup for the values lo..hi of the loop variable: a value
\* the loop variable skips (st.i # k) runs no iteration.
buildGroupLoop(rows, lo, hi, st) ==
    IF lo > hi THEN st
    ELSE IF lo = hi THEN
        IF st.done \/ st.i # lo THEN st ELSE buildGroupStep(rows, lo, st)
    ELSE LET mid == (lo + hi) \div 2
             left == buildGroupLoop(rows, lo, mid, st)
         IN  IF left.done THEN left
             ELSE buildGroupLoop(rows, mid + 1, hi, left)

\* buildGroup(survey): [node, err, panic].
buildGroup(rows) ==
    IF Len(rows) = 0 THEN
        [node |-> ZeroNode, err |-> "", panic |-> "index out of range"]
    ELSE IF rows[1].Type # beginGroup THEN
        [node |-> ZeroNode, err |-> "", panic |-> "not a group"]
    ELSE
        LET group == [ZeroNode EXCEPT !.Name = rows[1].Name,
                                      !.Label = rows[1].Label,
                                      !.Type = NtGroup]
            st == buildGroupLoop(rows, 2, Len(rows),
                      [i |-> 2, group |-> group, err |-> "", panic |-> "",
                       done |-> FALSE])
        IN  [node |-> st.group, err |-> st.err, panic |-> st.panic]

(***************************************************************************)
(* checkChoicesRef                                                         *)
(***************************************************************************)
RECURSIVE checkChoicesRef(_, _)
RECURSIVE checkChoicesRefLoop(_, _, _, _, _)

\* The loop of checkChoicesRef over the children lo..hi; st.err # "" or
\* st.panic # "" once it has returned or panicked.
checkChoicesRefLoop(nodes, cmap, lo, hi, st) ==
    IF lo > hi THEN st
    ELSE IF lo = hi THEN
        IF st.err # "" \/ st.panic # "" THEN st
        ELSE checkChoicesRef(nodes[lo], cmap)
    ELSE LET mid == (lo + hi) \div 2
             left == checkChoicesRefLoop(nodes, cmap, lo, mid, st)
         IN  IF left.err # "" \/ left.panic # "" THEN left
             ELSE checkChoicesRefLoop(nodes, cmap, mid + 1, hi, left)

\* checkChoicesRef that looks at single choice fields only.
checkChoicesRefSingleOnly(node, cmap) ==
    IF node.Type = NtField /\ node.FieldType = FtNil THEN
        [err |-> "", panic |-> "nil pointer dereference"]
    ELSE IF /\ node.Type = NtField
            /\ node.FieldType = FtSingleChoice
            /\ node.ChoicesOriginRef \notin DOMAIN cmap
    THEN [err |-> "Invalid single or multiple choice " \o Quote(node.ChoicesOriginRef),
          panic |-> ""]
    ELSE checkChoicesRefLoop(node.Nodes, cmap, 1, Len(node.Nodes),
             [err |-> "", panic |-> ""])

\* checkChoicesRef(node, choicesMap): [err, panic].
checkChoicesRef(node, cmap) ==
    IF node.Type = NtField /\ node.FieldType = FtNil THEN
        [err |-> "", panic |-> "nil pointer dereference"]
    ELSE IF /\ node.Type = NtField
            /\ (node.FieldType = FtSingleChoice \/ node.FieldType = FtMultipleChoice)
            /\ node.ChoicesOriginRef \notin DOMAIN cmap
    THEN [err |-> "Invalid single or multiple choice " \o Quote(node.ChoicesOriginRef),
          panic |-> ""]
    ELSE checkChoicesRefLoop(node.Nodes, cmap, 1, Len(node.Nodes),
             [err |-> "", panic |-> ""])

(***************************************************************************)
(* assignIds                                                               *)
(***************************************************************************)
RECURSIVE assignIds(_, _)
RECURSIVE assignIdsLoop(_, _, _)

\* The loop of assignIds with `previous` copied from the sibling before
\* instead of set to its id.
assignIdsLoopStalePrevious(nodes, lo, hi) ==
    IF lo > hi THEN nodes
    ELSE IF lo = hi THEN
        LET id == nodes[lo - 1].Id + 1 IN
        [nodes EXCEPT ![lo] = [@ EXCEPT !.Previous = nodes[lo - 1].Previous,
                                        !.Id = id,
                                        !.Nodes = assignIds(@, id)]]
    ELSE LET mid == (lo + hi) \div 2
             left == assignIdsLoop(nodes, lo, mid)
         IN  IF Len(left) < hi THEN left
             ELSE assignIdsLoop(left, mid + 1, hi)

\* The loop of assignIds for i in lo..hi, on the slice nodes.
assignIdsLoop(nodes, lo, hi) ==
    IF lo > hi THEN nodes
    ELSE IF lo = hi THEN
        LET id == nodes[lo - 1].Id + 1 IN
        [nodes EXCEPT ![lo] = [@ EXCEPT !.Previous = nodes[lo - 1].Id,
                                        !.Id = id,
                                        !.Nodes = assignIds(@, id)]]
    ELSE LET mid == (lo + hi) \div 2
             left == assignIdsLoop(nodes, lo, mid)
         IN  IF Len(left) < hi THEN left
             ELSE assignIdsLoop(left, mid + 1, hi)

\* assignIds without the multiplier: a first child gets its parent's id
\* plus one.
assignIdsNoMultiplier(nodes, parent) ==
    IF Len(nodes) = 0 THEN nodes
    ELSE LET id == parent + 1
             head == [nodes EXCEPT ![1] = [@ EXCEPT !.Previous = parent,
                                                    !.Id = id,
                                                    !.Nodes = assignIds(@, id)]]
         IN  assignIdsLoop(head, 2, Len(nodes))

\* assignIds(nodes, parent): the slice nodes as the call leaves it.
assignIds(nodes, parent) ==
    IF Len(nodes) = 0 THEN nodes
    ELSE LET id == parent * idMultiplier + 1
             head == [nodes EXCEPT ![1] = [@ EXCEPT !.Previous = parent,
                                                    !.Id = id,
                                                    !.Nodes = assignIds(@, id)]]
         IN  assignIdsLoop(head, 2, Len(nodes))

\* Lines 26-29 of Xls2ajf: every node of the slice retagged as a slide.
retagSlides(nodes) == [i \in 1..Len(nodes) |-> [nodes[i] EXCEPT !.Type = NtSlide]]

(***************************************************************************)
(* Inputs                                                                  *)
(***************************************************************************)
\* The row read from line i + 1 of the survey sheet (line 1 is the header),
\* with type token typ.
Row(i, typ) ==
    [Type |-> typ, Name |-> "q" \o ToString(i), Label |-> "Q" \o ToString(i),
     Required |-> IF i % 2 = 1 THEN "yes" ELSE "", LineNumber |-> i + 1]

\* The rows with the given sequence of type tokens.
Rows(types) == [i \in 1..Len(types) |-> Row(i, types[i])]

\* The choice row read from line i + 1 of the choices sheet.
ChoicesRow(i, list) ==
    [ListName |-> list, Name |-> "c" \o ToString(i), Label |-> "C" \o ToString(i),
     LineNumber |-> i + 1]

ChoicesRows(lists) == [i \in 1..Len(lists) |-> ChoicesRow(i, lists[i])]

SeqsUpTo(S, n) == UNION {[1..k -> S] : k \in 0..n}

\* Type tokens of the survey sheets of Spec: group rows and the supported
\* field types, with and without a reference to a list of choices.
TypeTokens ==
    {beginGroup, endGroup,
     "text", "select_one yes_no", "select_one l1", "select_multiple l2"}

\* Type tokens of the survey sheets of SpecAny: group and repeat rows, a
\* supported, an unsupported and an unknown field type.
AnyTokens ==
    {beginGroup, endGroup, beginRepeat, endRepeat,
     "text", "select_one l1", "integer", "bogus"}

\* Type tokens of the survey sheets of SpecTree: group rows and one field type.
TreeTokens == {beginGroup, endGroup, "text"}

\* Choices sheets explored, as their columns of list names.
ChoiceLists == {<<>>, <<"l1">>, <<"l1", "l2", "l1">>}

\* A survey sheet with two groups, the first of n fields, the second of one.
WideTypes(n) ==
    <<beginGroup>> \o [i \in 1..n |-> "text"] \o <<endGroup, beginGroup, "text", endGroup>>

\* The numbers of fields of the wide sheets explored: the largest number of
\* siblings whose ids stay below the next multiple of idMultiplier, and one more.
WideFanOuts == {idMultiplier, idMultiplier + 1}

(***************************************************************************)
(* Xls2ajf                                                                 *)
(***************************************************************************)
EmptyForm == [ChoicesOrigins |-> <<>>, Slides |-> <<>>]

Start(x) ==
    /\ xls = x
    /\ pc = "start"
    /\ ajf = EmptyForm
    /\ choicesMap = <<>>
    /\ survey = <<>>
    /\ global = ZeroNode
    /\ err = ""
    /\ panic = ""
    /\ run = 1
    /\ first = EmptyForm

Init ==
    \E types \in SeqsUpTo(TypeTokens, MaxRows), lists \in ChoiceLists :
        Start([Survey |-> Rows(types), Choices |-> ChoicesRows(lists)])

\* Line 12.
BuildChoicesOrigins ==
    /\ pc = "start"
    /\ \E order \in RangeOrders(choicesMapLoop(xls.Choices, 1, Len(xls.Choices), <<>>)) :
          LET r == buildChoicesOrigins(xls.Choices, order) IN
          /\ ajf' = [ajf EXCEPT !.ChoicesOrigins = r.co]
          /\ choicesMap' = r.choicesMap
    /\ pc' = "preprocess"
    /\ UNCHANGED <<xls, survey, global, err, panic, run, first>>

\* Lines 14-17.
PreprocessGroups ==
    /\ pc = "preprocess"
    /\ LET r == preprocessGroups(xls.Survey) IN
          IF r.err # ""
          THEN /\ err' = r.err
               /\ pc' = "failed"
               /\ UNCHANGED survey
          ELSE /\ survey' = r.survey
               /\ pc' = "build"
               /\ UNCHANGED err
    /\ UNCHANGED <<xls, ajf, choicesMap, global, panic, run, first>>

\* Lines 18-21.
BuildGroup ==
    /\ pc = "build"
    /\ LET r == buildGroup(survey) IN
          IF r.panic # ""
          THEN /\ panic' = r.panic
               /\ pc' = "panicked"
               /\ UNCHANGED <<global, err>>
          ELSE IF r.err # ""
          THEN /\ err' = r.err
               /\ pc' = "failed"
               /\ global' = r.node
               /\ UNCHANGED panic
          ELSE /\ global' = r.node
               /\ pc' = "check"
               /\ UNCHANGED <<err, panic>>
    /\ UNCHANGED <<xls, ajf, choicesMap, survey, run, first>>

\* Lines 22-25.
CheckChoicesRef ==
    /\ pc = "check"
    /\ LET r == checkChoicesRef(global, choicesMap) IN
          IF r.panic # ""
          THEN /\ panic' = r.panic
               /\ pc' = "panicked"
               /\ UNCHANGED err
          ELSE IF r.err # ""
          THEN /\ err' = r.err
               /\ pc' = "failed"
               /\ UNCHANGED panic
          ELSE /\ pc' = "publish"
               /\ UNCHANGED <<err, panic>>
    /\ UNCHANGED <<xls, ajf, choicesMap, survey, global, run, first>>

\* Lines 26-29.  ajf.Slides and global.Nodes are one slice.
Publish ==
    /\ pc = "publish"
    /\ LET slides == retagSlides(global.Nodes) IN
          /\ ajf' = [ajf EXCEPT !.Slides = slides]
          /\ global' = [global EXCEPT !.Nodes = slides]
    /\ pc' = "assign"
    /\ UNCHANGED <<xls, choicesMap, survey, err, panic, run, first>>

\* Lines 30-31.
AssignIds ==
    /\ pc = "assign"
    /\ LET slides == assignIds(ajf.Slides, 0) IN
          /\ ajf' = [ajf EXCEPT !.Slides = slides]
          /\ global' = [global EXCEPT !.Nodes = slides]
    /\ pc' = "done"
    /\ UNCHANGED <<xls, choicesMap, survey, err, panic, run, first>>

\* A second, fresh conversion of the same input, the form returned by the
\* first one kept for comparison.
Rerun ==
    /\ pc = "done"
    /\ run = 1
    /\ run' = 2
    /\ first' = ajf
    /\ pc' = "start"
    /\ ajf' = EmptyForm
    /\ choicesMap' = <<>>
    /\ survey' = <<>>
    /\ global' = ZeroNode
    /\ UNCHANGED <<xls, err, panic>>

Next ==
    \/ BuildChoicesOrigins
    \/ PreprocessGroups
    \/ BuildGroup
    \/ CheckChoicesRef
    \/ Publish
    \/ AssignIds

NextTwice == Next \/ Rerun

InitAny ==
    \E types \in SeqsUpTo(AnyTokens, MaxAnyRows), lists \in ChoiceLists :
        Start([Survey |-> Rows(types), Choices |-> ChoicesRows(lists)])

InitTree ==
    \/ \E types \in SeqsUpTo(TreeTokens, MaxTreeRows) :
          Start([Survey |-> Rows(types), Choices |-> <<>>])
    \/ \E n \in WideFanOuts :
          Start([Survey |-> Rows(WideTypes(n)), Choices |-> <<>>])

\* Conversions of sheets of supported field types.
Spec == Init /\ [][Next]_vars

\* Conversions of sheets of any row types.
SpecAny == InitAny /\ [][Next]_vars

\* Conversions of deeper and of wide sheets.
SpecTree == InitTree /\ [][Next]_vars

\* Two conversions of the same sheets.
SpecTwice == Init /\ [][NextTwice]_vars

(***************************************************************************)
(* Vocabulary of the properties: read off the input sheet and the returned *)
(* tree, independently of the functions above.                             *)
(***************************************************************************)
Terminal == pc \in {"done", "failed", "panicked"}

\* The paths (sequences of child indices) of the nodes of a forest.
RECURSIVE Paths(_)
Paths(nodes) ==
    UNION {{<<i>>} \cup {<<i>> \o p : p \in Paths(nodes[i].Nodes)} : i \in 1..Len(nodes)}

RECURSIVE NodeAt(_, _)
NodeAt(nodes, p) ==
    IF Len(p) = 1 THEN nodes[p[1]] ELSE NodeAt(nodes[p[1]].Nodes, Tail(p))

IdsDistinct(nodes) ==
    Cardinality({NodeAt(nodes, p).Id : p \in Paths(nodes)}) = Cardinality(Paths(nodes))

\* No parent of the forest, its virtual root included, has more than n children.
FanOutAtMost(nodes, n) ==
    /\ Len(nodes) <= n
    /\ \A p \in Paths(nodes) : Len(NodeAt(nodes, p).Nodes) <= n

\* The rules of the id scheme, for the children nodes of a parent with id P.
RECURSIVE ChainOK(_, _)
ChainOK(nodes, P) ==
    \A i \in 1..Len(nodes) :
        /\ i = 1 => nodes[i].Id = P * 1000 + 1 /\ nodes[i].Previous = P
        /\ i > 1 => nodes[i].Id = nodes[i - 1].Id + 1 /\ nodes[i].Previous = nodes[i - 1].Id
        /\ ChainOK(nodes[i].Nodes, nodes[i].Id)

\* The number of rows of type typ among the first k rows.
CountType(rows, typ, k) == Cardinality({i \in 1..k : rows[i].Type = typ})

\* Open groups (open repeats) after row k.
GroupDepth(rows, k) == CountType(rows, beginGroup, k) - CountType(rows, endGroup, k)
RepeatDepth(rows, k) == CountType(rows, beginRepeat, k) - CountType(rows, endRepeat, k)

Balanced(rows) ==
    /\ \A k \in 1..Len(rows) : GroupDepth(rows, k) >= 0
    /\ GroupDepth(rows, Len(rows)) = 0

\* The `end group` rows that close no open group: the first row at which the
\* number of `end group` rows exceeds that of `begin group` rows.
UnmatchedEnds(rows) ==
    {k \in 1..Len(rows) :
        /\ rows[k].Type = endGroup
        /\ GroupDepth(rows, k) < 0
        /\ \A j \in 1..(k - 1) : GroupDepth(rows, j) >= 0}

IsGroupRow(row) == row.Type \in {beginGroup, endGroup}
IsRepeatRow(row) == row.Type \in {beginRepeat, endRepeat}

\* The rows outside every group that are no group rows.
UngroupedRows(rows) ==
    {k \in 1..Len(rows) : ~IsGroupRow(rows[k]) /\ GroupDepth(rows, k) = 0}

\* The field rows outside every group and every repeat.
UngroupedFields(rows) ==
    {k \in UngroupedRows(rows) : ~IsRepeatRow(rows[k]) /\ RepeatDepth(rows, k) = 0}

HasRepeatBlock(rows) ==
    \E i, j \in 1..Len(rows) :
        i < j /\ rows[i].Type = beginRepeat /\ rows[j].Type = endRepeat

AllSupported(rows) ==
    \A k \in 1..Len(rows) : IsGroupRow(rows[k]) \/ isSupportedField(rows[k].Type)

Contains(s, sub) ==
    \E i \in 1..(Len(s) - Len(sub) + 1) : SubSeq(s, i, i + Len(sub) - 1) = sub

\* The select rows that name a list of which the choices sheet has no row.
MissingRefs(x) ==
    {k \in 1..Len(x.Survey) :
        LET typ == x.Survey[k].Type IN
        /\ isSelectOne(typ) \/ isSelectMultiple(typ)
        /\ \A c \in 1..Len(x.Choices) :
              /\ typ # "select_one " \o x.Choices[c].ListName
              /\ typ # "select_multiple " \o x.Choices[c].ListName}

\* A tree written back as rows: what each node keeps of the row it is from.
BeginMark(name, label) == [kind |-> "begin", Name |-> name, Label |-> label]
EndMark == [kind |-> "end", Name |-> "", Label |-> ""]
FieldMark(name, label) == [kind |-> "field", Name |-> name, Label |-> label]

RECURSIVE Flatten(_, _, _)
Flatten(nodes, lo, hi) ==
    IF lo > hi THEN <<>>
    ELSE IF lo = hi THEN
        LET n == nodes[lo] IN
        IF n.Type = NtField THEN <<FieldMark(n.Name, n.Label)>>
        ELSE <<BeginMark(n.Name, n.Label)>> \o Flatten(n.Nodes, 1, Len(n.Nodes)) \o <<EndMark>>
    ELSE LET mid == (lo + hi) \div 2
         IN  Flatten(nodes, lo, mid) \o Flatten(nodes, mid + 1, hi)

Marks(rows) ==
    [i \in 1..Len(rows) |->
        IF rows[i].Type = beginGroup THEN BeginMark(rows[i].Name, rows[i].Label)
        ELSE IF rows[i].Type = endGroup THEN EndMark
        ELSE FieldMark(rows[i].Name, rows[i].Label)]

\* The rows the returned slides stand for: the input, inside a group "form"
\* when it has rows outside every group.
ExpectedMarks(rows) ==
    IF UngroupedRows(rows) # {}
    THEN <<BeginMark("form", "Form")>> \o Marks(rows) \o <<EndMark>>
    ELSE Marks(rows)

\* The rows at the top level of the sheet that open a group or are a field,
\* in order: the k-th of them.
TopItems(rows) ==
    {i \in 1..Len(rows) :
        \/ rows[i].Type = beginGroup /\ GroupDepth(rows, i) = 1
        \/ ~IsGroupRow(rows[i]) /\ GroupDepth(rows, i) = 0}
TopItem(rows, k) ==
    CHOOSE i \in TopItems(rows) : Cardinality({j \in TopItems(rows) : j < i}) = k - 1

(***************************************************************************)
(* Properties                                                              *)
(***************************************************************************)

\* C1, as stated: in every returned form the ids of all nodes, at any depth,
\* are pairwise distinct, whatever the number of siblings under one parent.
C1_IdsDistinctAnyFanOut ==
    pc = "done" => IdsDistinct(ajf.Slides)

\* C1, amended: in every returned form in which no parent (the virtual root
\* included) has more than idMultiplier children, the ids of all nodes are
\* pairwise distinct.
C1_IdsDistinctBoundedFanOut ==
    (pc = "done" /\ FanOutAtMost(ajf.Slides, idMultiplier)) => IdsDistinct(ajf.Slides)

\* A returned form with a parent of exactly idMultiplier children, next to
\* a sibling that has a child of its own.
C1_Witness ==
    /\ pc = "done"
    /\ Len(ajf.Slides) = 2
    /\ Len(ajf.Slides[1].Nodes) = idMultiplier
    /\ Len(ajf.Slides[2].Nodes) = 1
    /\ IdsDistinct(ajf.Slides)

\* C2: in every returned form, for every parent P (the virtual root with id
\* 0 for the slides), P's first child has id P.id*1000 + 1 and previous P.id,
\* and every later child has the id of the sibling before it plus one and
\* that sibling's id as previous.
C2_IdChain ==
    pc = "done" => ChainOK(ajf.Slides, 0)

\* A returned form with a later sibling three levels down, below a group
\* that is not a first child.
C2_Witness ==
    /\ pc = "done"
    /\ \E p \in Paths(ajf.Slides) : Len(p) = 3 /\ p[2] >= 2 /\ p[3] >= 2
    /\ ChainOK(ajf.Slides, 0)

\* C3: a sheet with an `end group` row that closes no open group makes the
\* conversion fail with an error that cites the line number of that row.
C3_UnmatchedEndCitesLine ==
    \A k \in UnmatchedEnds(xls.Survey) :
        Terminal =>
            /\ pc = "failed"
            /\ Contains(err, ToString(xls.Survey[k].LineNumber))

\* The sheets C4 is about: a repeat block and a field row outside every group.
C4_Case == HasRepeatBlock(xls.Survey) /\ UngroupedFields(xls.Survey) # {}

\* C4: such a sheet fails with the "repeats and ungrouped questions cannot
\* coexist" error.  buildGroup rejects the repeat row with "Repeats are not
\* supported" instead, and no error of the converter mentions coexistence.
C4_CannotCoexist ==
    (C4_Case /\ Terminal) =>
        /\ pc = "failed"
        /\ Contains(err, "cannot coexist")

\* The sheets C5 is about: balanced, without repeat rows, with a row outside
\* every group, all fields of supported types.
C5_Case ==
    /\ Balanced(xls.Survey)
    /\ UngroupedRows(xls.Survey) # {}
    /\ AllSupported(xls.Survey)

\* What C5 says of the returned form.
C5_FormSlide ==
    /\ pc = "done"
    /\ Len(ajf.Slides) = 1
    /\ LET slide == ajf.Slides[1]
           rows == xls.Survey
       IN  /\ slide.Name = "form"
           /\ slide.Type = NtSlide
           /\ slide.Id = 1 /\ slide.Previous = 0
           /\ Len(slide.Nodes) >= 1
           /\ slide.Nodes[1].Id = 1001 /\ slide.Nodes[1].Previous = 1
           /\ Flatten(slide.Nodes, 1, Len(slide.Nodes)) = Marks(rows)
           /\ Len(slide.Nodes) = Cardinality(TopItems(rows))
           /\ \A k \in 1..Len(slide.Nodes) :
                 LET row == rows[TopItem(rows, k)] IN
                 /\ slide.Nodes[k].Name = row.Name
                 /\ slide.Nodes[k].Type = IF row.Type = beginGroup THEN NtGroup ELSE NtField

\* C5, as stated: every such sheet is converted to one slide "form" that
\* holds the whole input, with id 1, previous 0, first child 1001 after 1.
C5_FormSlideAlways ==
    (C5_Case /\ Terminal) => C5_FormSlide

\* C5, amended: every such sheet whose select rows all name a list that has
\* a choice row is converted to one slide "form" that holds the whole input,
\* with id 1, previous 0, first child 1001 after 1.
C5_FormSlideWhenRefsDefined ==
    (C5_Case /\ MissingRefs(xls) = {} /\ Terminal) => C5_FormSlide

\* A returned form for a sheet with a group and a select field at the top.
C5_Witness ==
    /\ C5_Case
    /\ C5_FormSlide
    /\ \E i, j \in 1..Len(ajf.Slides[1].Nodes) :
          /\ ajf.Slides[1].Nodes[i].Type = NtGroup
          /\ ajf.Slides[1].Nodes[j].FieldType = FtSingleChoice

\* The sheets C6 is about: balanced, all fields of supported types.
C6_Case == Balanced(xls.Survey) /\ AllSupported(xls.Survey)

\* C6: the conversion of such a sheet fails exactly when a select_one (other
\* than yes_no) or select_multiple row names a list without choice row; it
\* then fails in checkChoicesRef, with the whole tree built and no id
\* assigned; and in every returned form the reference of every single or
\* multiple choice field names one of the form's choice origins.
C6_FailsIffMissingRef ==
    C6_Case =>
        /\ Terminal => (pc = "failed" <=> MissingRefs(xls) # {})
        /\ pc = "failed" =>
              /\ HasPrefix(err, "Invalid single or multiple choice ")
              /\ Flatten(<<global>>, 1, 1) = Marks(survey)
              /\ ajf.Slides = <<>>
              /\ \A p \in Paths(<<global>>) :
                    NodeAt(<<global>>, p).Id = 0 /\ NodeAt(<<global>>, p).Previous = 0
        /\ pc = "done" =>
              \A p \in Paths(ajf.Slides) :
                 LET n == NodeAt(ajf.Slides, p) IN
                 n.FieldType \in {FtSingleChoice, FtMultipleChoice} =>
                    \E i \in 1..Len(ajf.ChoicesOrigins) :
                        ajf.ChoicesOrigins[i].Name = n.ChoicesOriginRef

\* A conversion that failed on a select_multiple row inside a group, with
\* a select_one row whose list is defined.
C6_Witness ==
    /\ C6_Case
    /\ pc = "failed"
    /\ \E k \in MissingRefs(xls) :
          isSelectMultiple(xls.Survey[k].Type) /\ GroupDepth(xls.Survey, k) >= 1
    /\ \E k \in 1..Len(xls.Survey) :
          isSelectOne(xls.Survey[k].Type) /\ k \notin MissingRefs(xls)

\* C7: two fresh conversions of the same choice rows return the choice
\* origins in the same order.
C7_OriginsOrderStable ==
    (run = 2 /\ pc = "done") => ajf.ChoicesOrigins = first.ChoicesOrigins

\* C8: in every returned form every top-level node is a slide built from a
\* `begin group` row, no field, and every group node below keeps type group.
C8_SlidesAreGroups ==
    pc = "done" =>
        /\ \A i \in 1..Len(ajf.Slides) :
              /\ ajf.Slides[i].Type = NtSlide
              /\ ajf.Slides[i].FieldType = FtNil
              /\ \E k \in 1..Len(survey) :
                    /\ survey[k].Type = beginGroup
                    /\ survey[k].Name = ajf.Slides[i].Name
                    /\ survey[k].Label = ajf.Slides[i].Label
        /\ \A p \in Paths(ajf.Slides) :
              Len(p) >= 2 =>
                 LET n == NodeAt(ajf.Slides, p) IN
                 IF n.FieldType = FtNil THEN n.Type = NtGroup ELSE n.Type = NtField

\* A returned form for a sheet of ungrouped fields and a group with a
\* nested group.
C8_Witness ==
    /\ pc = "done"
    /\ UngroupedRows(xls.Survey) # {}
    /\ \E p \in Paths(ajf.Slides) :
          Len(p) = 3 /\ NodeAt(ajf.Slides, p).Type = NtGroup

\* C9: whatever the rows, once preprocessGroups has returned a row sequence
\* the conversion reaches no panic ("not a group", "unexpected end of group",
\* "group end not found", an unsupported or unrecognized type in buildField):
\* it ends with a form or with a returned error.
C9_NoPanic ==
    /\ panic = ""
    /\ pc # "panicked"
    /\ pc \in {"start", "preprocess", "build", "check", "publish", "assign",
               "done", "failed"}
    /\ pc = "failed" => err # ""
    /\ pc = "done" => err = ""

\* A conversion in which buildGroup has returned an error for a row of an
\* unsupported or unknown type inside a group of the sheet.
C9_Witness ==
    /\ pc = "failed"
    /\ survey # <<>>
    /\ \E k \in 1..Len(xls.Survey) :
          /\ GroupDepth(xls.Survey, k) = 1
          /\ err \in {"Field type " \o Quote(xls.Survey[k].Type) \o " is not supported",
                      "Invalid type " \o Quote(xls.Survey[k].Type) \o " in survey"}

\* C10: the returned tree, walked depth-first and left to right, gives back
\* the rows of the input in order: one field node per field row, with its
\* name and label, one group node per begin/end pair, each node inside the
\* group whose pair most closely encloses its row.
C10_TreeIsImageOfRows ==
    pc = "done" =>
        Flatten(ajf.Slides, 1, Len(ajf.Slides)) = ExpectedMarks(xls.Survey)

\* A returned form with a field that follows a nested group, two groups deep.
C10_Witness ==
    /\ pc = "done"
    /\ \E p \in Paths(ajf.Slides) :
          /\ Len(p) = 3
          /\ p[3] >= 2
          /\ NodeAt(ajf.Slides, p).Type = NtField
          /\ NodeAt(ajf.Slides, SubSeq(p, 1, 2) \o <<p[3] - 1>>).Type = NtGroup

====
